---------------------------- MODULE Spec2Model ----------------------------
(***************************************************************************)
(* A model of SoftPT (src/src/SoftPT.cpp): the vector algebra, the         *)
(* ray/sphere intersection solver, the hemisphere sampler, the recursive   *)
(* path integrator TracePath, scene construction and the Render loop that  *)
(* the window procedure runs on every WM_PAINT.                            *)
(*                                                                         *)
(* Numbers.  A C++ float is modelled as a signed fixed-point number: the   *)
(* integer v stands for v / One.  Three codes outside the finite range     *)
(* stand for +infinity, -infinity and NaN, and every operation treats      *)
(* them the way IEEE-754 arithmetic does (x/0, 0*inf, inf-inf, ordered     *)
(* comparisons with NaN are false).  Finite results are rounded to the     *)
(* nearest grid point, as float operations round to the nearest float.     *)
(* There is no signed zero.                                                *)
(***************************************************************************)
EXTENDS Integers, Sequences, FiniteSets, TLC

\* ------------------------------------------------------------------------
\* float
\* ------------------------------------------------------------------------

\* Grid points per 1.0f.
One == 1000

\* The non-finite floats.
NaN == 2147483647
PInf == 2147483646
NInf == -2147483646

\* <cfloat> FLT_MAX, the largest finite float (SoftPT.cpp:214).
FLT_MAX == 2147483645

IsNaN(x) == x = NaN
IsInf(x) == x = PInf \/ x = NInf
IsFinite(x) == ~IsNaN(x) /\ ~IsInf(x)

Abs(n) == IF n < 0 THEN -n ELSE n
Sgn(n) == IF n < 0 THEN -1 ELSE IF n > 0 THEN 1 ELSE 0

\* n / d for n >= 0, d > 0, rounded to the nearest integer.
RoundDiv(n, d) == (2 * n + d) \div (2 * d)

\* Ordered comparisons: false as soon as an operand is NaN.
FLt(x, y) == ~IsNaN(x) /\ ~IsNaN(y) /\ x < y
FGt(x, y) == ~IsNaN(x) /\ ~IsNaN(y) /\ x > y
FGe(x, y) == ~IsNaN(x) /\ ~IsNaN(y) /\ x >= y

FNeg(x) == IF IsNaN(x) THEN NaN ELSE -x

FAdd(x, y) ==
    IF IsNaN(x) \/ IsNaN(y) THEN NaN
    ELSE IF IsInf(x) THEN (IF IsInf(y) /\ y # x THEN NaN ELSE x)
    ELSE IF IsInf(y) THEN y
    ELSE x + y

FSub(x, y) == FAdd(x, FNeg(y))

\* |x| * |y| / One of two finite operands, computed in two parts so that no
\* intermediate product leaves the 32-bit range of the model checker.
MulMag(ax, ay) ==
    LET big == IF ax >= ay THEN ax ELSE ay
        small == IF ax >= ay THEN ay ELSE ax
    IN  (big \div One) * small + RoundDiv((big % One) * small, One)

FMul(x, y) ==
    IF IsNaN(x) \/ IsNaN(y) THEN NaN
    ELSE IF IsInf(x) \/ IsInf(y)
         THEN (IF x = 0 \/ y = 0 THEN NaN
               ELSE IF Sgn(x) * Sgn(y) > 0 THEN PInf ELSE NInf)
    ELSE Sgn(x) * Sgn(y) * MulMag(Abs(x), Abs(y))

FDiv(x, y) ==
    IF IsNaN(x) \/ IsNaN(y) THEN NaN
    ELSE IF IsInf(x)
         THEN (IF IsInf(y) THEN NaN
               ELSE IF Sgn(x) * (IF y < 0 THEN -1 ELSE 1) > 0 THEN PInf ELSE NInf)
    ELSE IF IsInf(y) THEN 0
    ELSE IF y = 0
         THEN (IF x = 0 THEN NaN ELSE IF x > 0 THEN PInf ELSE NInf)
    ELSE Sgn(x) * Sgn(y) * RoundDiv(Abs(x) * One, Abs(y))

\* Integer square root by Newton's iteration, from a start above the root.
RECURSIVE ISqrtIter(_, _)
ISqrtIter(n, r) ==
    LET r2 == (r + n \div r) \div 2
    IN  IF r2 >= r THEN r ELSE ISqrtIter(n, r2)

ISqrt(n) == IF n < 2 THEN n ELSE ISqrtIter(n, IF n > 46340 THEN 46340 ELSE n)

\* The integer nearest to the square root of n.
ISqrtNearest(n) == LET r == ISqrt(n) IN IF n - r * r > r THEN r + 1 ELSE r

\* sqrtf: NaN for a negative operand; sqrt(v/One)*One = sqrt(v*One), taken
\* with a coarser step for large operands (a float's relative precision).
FSqrt(x) ==
    IF IsNaN(x) THEN NaN
    ELSE IF x = PInf THEN PInf
    ELSE IF x < 0 THEN NaN
    ELSE IF x <= 2147483 THEN ISqrtNearest(x * One)
    ELSE 10 * ISqrtNearest(x * (One \div 100))

\* (float)n of an int n.
FromInt(n) == n * One

\* sinf and cosf: reduction of the angle to a quadrant of the circle, then
\* the Taylor polynomial of the function on [0, pi/2].
HalfPiF == 1571
TwoPiF == 6283

SinPoly(y) ==
    LET y2 == FMul(y, y)
        p4 == One - FDiv(y2, FromInt(72))
        p3 == One - FMul(FDiv(y2, FromInt(42)), p4)
        p2 == One - FMul(FDiv(y2, FromInt(20)), p3)
        p1 == One - FMul(FDiv(y2, FromInt(6)), p2)
    IN  FMul(y, p1)

CosPoly(y) ==
    LET y2 == FMul(y, y)
        p4 == One - FDiv(y2, FromInt(56))
        p3 == One - FMul(FDiv(y2, FromInt(30)), p4)
        p2 == One - FMul(FDiv(y2, FromInt(12)), p3)
    IN  One - FMul(FDiv(y2, FromInt(2)), p2)

Quadrant(x) == LET q == (x % TwoPiF) \div HalfPiF IN IF q > 3 THEN 3 ELSE q
InQuadrant(x) == (x % TwoPiF) - Quadrant(x) * HalfPiF

cosf(x) ==
    IF ~IsFinite(x) THEN NaN
    ELSE LET q == Quadrant(x)
             y == InQuadrant(x)
         IN  IF q = 0 THEN CosPoly(y)
             ELSE IF q = 1 THEN -SinPoly(y)
             ELSE IF q = 2 THEN -CosPoly(y)
             ELSE SinPoly(y)

sinf(x) ==
    IF ~IsFinite(x) THEN NaN
    ELSE LET q == Quadrant(x)
             y == InQuadrant(x)
         IN  IF q = 0 THEN SinPoly(y)
             ELSE IF q = 1 THEN CosPoly(y)
             ELSE IF q = 2 THEN -SinPoly(y)
             ELSE -CosPoly(y)

\* const float kPi = 3.1415927f; const float kEpsilon = 0.00001f.  kEpsilon
\* lies below the grid's resolution and is carried as one grid step, the
\* smallest positive value: it stays strictly between zero and every other
\* positive number, which is what the comparisons against it rely on.
kPi == 3142
kEpsilon == 1

\* ------------------------------------------------------------------------
\* class Vector3
\* ------------------------------------------------------------------------

Vec(x, y, z) == <<x, y, z>>
VecSplat(in) == <<in, in, in>>

Dot(a, b) ==
    FAdd(FAdd(FMul(a[1], b[1]), FMul(a[2], b[2])), FMul(a[3], b[3]))

Cross(a, b) ==
    << FSub(FMul(a[2], b[3]), FMul(a[3], b[2])),
       FSub(FMul(a[3], b[1]), FMul(a[1], b[3])),
       FSub(FMul(a[1], b[2]), FMul(a[2], b[1])) >>

Length(a) == FSqrt(Dot(a, a))

VSub(a, b) == << FSub(a[1], b[1]), FSub(a[2], b[2]), FSub(a[3], b[3]) >>
VAdd(a, b) == << FAdd(a[1], b[1]), FAdd(a[2], b[2]), FAdd(a[3], b[3]) >>
VMul(a, b) == << FMul(a[1], b[1]), FMul(a[2], b[2]), FMul(a[3], b[3]) >>
VScale(a, f) == << FMul(a[1], f), FMul(a[2], f), FMul(a[3], f) >>

Normalize(a) == VScale(a, FDiv(One, Length(a)))

Distance(a, b) == Length(VSub(a, b))

IsEquivalent(a, b, maxDelta) == FLt(Length(VSub(b, a)), maxDelta)

VecFinite(a) == IsFinite(a[1]) /\ IsFinite(a[2]) /\ IsFinite(a[3])

\* ------------------------------------------------------------------------
\* free functions
\* ------------------------------------------------------------------------

Lerp(val0, val1, t) == VAdd(val0, VScale(VSub(val1, val0), t))

Saturate(in) == IF FLt(in, 0) THEN 0 ELSE IF FGt(in, One) THEN One ELSE in

\* The coefficients of the quadratic a t^2 + b t + c = 0 that Intersect
\* solves, and its discriminant.
QuadA(ray) == Dot(ray.direction, ray.direction)
QuadB(ray, sphere) ==
    FMul(2 * One, Dot(ray.direction, VSub(ray.origin, sphere.center)))
QuadC(ray, sphere) ==
    LET rayOriginToSphereCenter == VSub(ray.origin, sphere.center)
    IN  FSub(Dot(rayOriginToSphereCenter, rayOriginToSphereCenter),
             FMul(sphere.radius, sphere.radius))
Discriminant(ray, sphere) ==
    LET b == QuadB(ray, sphere)
    IN  FSub(FMul(b, b), FMul(FMul(4 * One, QuadA(ray)), QuadC(ray, sphere)))

RootT0(ray, sphere) ==
    FDiv(FAdd(FMul(-One, QuadB(ray, sphere)), FSqrt(Discriminant(ray, sphere))),
         FMul(2 * One, QuadA(ray)))
RootT1(ray, sphere) ==
    FDiv(FSub(FMul(-One, QuadB(ray, sphere)), FSqrt(Discriminant(ray, sphere))),
         FMul(2 * One, QuadA(ray)))

PointAt(ray, t) == VAdd(ray.origin, VScale(ray.direction, t))

\* std::swap(result[0], result[1])
SwapPairNot(result) == result
SwapPair(result) == << result[2], result[1] >>

\* if (discriminant > kEpsilon): the second root is looked at.
SecondRootNoTangent(discriminant) == FGe(discriminant, 0)
SecondRoot(discriminant) == FGt(discriminant, kEpsilon)

\* Intersect: the points written to result[0 .. numIntersections-1].
Intersect(ray, sphere) ==
    LET discriminant == Discriminant(ray, sphere)
        t0 == RootT0(ray, sphere)
        t1 == RootT1(ray, sphere)
        first == IF FGe(t0, 0) THEN << PointAt(ray, t0) >> ELSE << >>
    IN  IF FLt(discriminant, 0) THEN << >>
        ELSE IF SecondRoot(discriminant) /\ FGe(t1, 0)
             THEN LET both == Append(first, PointAt(ray, t1))
                  IN  IF FGe(t0, 0) /\ FGe(t1, 0) /\ FLt(t1, t0)
                      THEN SwapPair(both)
                      ELSE both
        ELSE first

\* RandomTangentFrame: outTangent and outBitangent.
SeedRight == << -One, 0, 0 >>
SeedUp == << 0, One, 0 >>

FrameSeed(normal) ==
    IF IsEquivalent(normal, SeedRight, kEpsilon) THEN SeedUp ELSE SeedRight

RandomTangentFrame(normal) ==
    LET outBitangent == Normalize(Cross(normal, FrameSeed(normal)))
    IN  [ tangent |-> Normalize(Cross(outBitangent, normal)),
          bitangent |-> outBitangent ]

RandomVector(normal, rand0, rand1) ==
    LET sqrtFactor == FSqrt(FSub(One, FMul(rand0, rand0)))
        cosFactor == cosf(FMul(FMul(2 * One, kPi), rand1))
        sinFactor == sinf(FMul(FMul(2 * One, kPi), rand1))
        randVec == << FMul(sqrtFactor, cosFactor), rand0,
                      FMul(sqrtFactor, sinFactor) >>
        frame == RandomTangentFrame(normal)
        rowX == << frame.tangent[1], normal[1], frame.bitangent[1] >>
        rowY == << frame.tangent[2], normal[2], frame.bitangent[2] >>
        rowZ == << frame.tangent[3], normal[3], frame.bitangent[3] >>
    IN  << Dot(randVec, rowX), Dot(randVec, rowY), Dot(randVec, rowZ) >>

\* rand(): the C runtime's generator, one global state advanced by every
\* call and never seeded by the program, so a process starts from the
\* state srand(1) would set.  It is a linear congruential generator whose
\* result is the high bits of the new state, in 0 .. RAND_MAX.
RAND_MAX == 7
RandModulus == 64
RandDefaultSeed == 1
RandAdvance(state) == (13 * state + 11) % RandModulus
RandValue(state) == (state \div (RandModulus \div (RAND_MAX + 1))) % (RAND_MAX + 1)

\* float rand0 = ... rand() ...; float rand1 = ... rand() ...;  two
\* statements, so rand0's call comes first: the states of the generator
\* after the call for rand0 and after the call for rand1.
DrawStatesSecondFirst(state) ==
    << RandAdvance(RandAdvance(state)), RandAdvance(state) >>
DrawStates(state) ==
    << RandAdvance(state), RandAdvance(RandAdvance(state)) >>

\* (float)(rand()) / (float)(RAND_MAX + 1)
RandFloat(value) == FDiv(FromInt(value), FromInt(RAND_MAX + 1))

\* ------------------------------------------------------------------------
\* TracePath: the pure parts
\* ------------------------------------------------------------------------

USE_SKY_COLOR == 0
kMaxBounces == 6
INT_MAX == 2147483647

ZeroVec == << 0, 0, 0 >>

\* if (bounce == kMaxBounces)
TerminalCaseNever(bounce) == FALSE
TerminalCase(bounce) == bounce = kMaxBounces

\* The nearest-hit loop over spheres[i], i = from .. size-1 (the model's
\* sequences are indexed from 1, so sphere i of the code is spheres[i+1]),
\* carrying nearestSphereIndex, nearestDistance and nearestIntersection.
NoHit ==
    [ index |-> INT_MAX, distance |-> FLT_MAX, point |-> VecSplat(FLT_MAX) ]

RECURSIVE ScanSpheres(_, _, _, _)
ScanSpheres(ray, sphs, i, nearest) ==
    IF i > Len(sphs) THEN nearest
    ELSE LET intersection == Intersect(ray, sphs[i])
             distance == Length(VSub(intersection[1], ray.origin))
         IN  IF Len(intersection) > 0 /\ FLt(distance, nearest.distance)
             THEN ScanSpheres(ray, sphs, i + 1,
                              [ index |-> i, distance |-> distance,
                                point |-> intersection[1] ])
             ELSE ScanSpheres(ray, sphs, i + 1, nearest)

NearestHitFromSecond(ray, sphs) == ScanSpheres(ray, sphs, 2, NoHit)
NearestHit(ray, sphs) == ScanSpheres(ray, sphs, 1, NoHit)

\* What TracePath returns when no sphere was chosen.
SkyTint == << One \div 4, (55 * One) \div 100, (3 * One) \div 4 >>
MissColorSky(ray) == Lerp(ZeroVec, SkyTint, ray.direction[2])
MissColor(ray) ==
    IF USE_SKY_COLOR = 1 THEN Lerp(ZeroVec, SkyTint, ray.direction[2])
    ELSE ZeroVec

HitNormal(point, sphere) == Normalize(VSub(point, sphere.center))

\* assert(check >= (0.0f - kEpsilon))
AssertHolds(newDir, normal) == FGe(Dot(newDir, normal), FSub(0, kEpsilon))

ContinuationRay(point, normal, newDir) ==
    [ origin |-> VAdd(point, VScale(normal, kEpsilon)), direction |-> newDir ]

\* emissive + albedo * TracePath(newRay, spheres, ++bounce) * normal.Dot(newDir)
RadianceNoCosine(material, recursive, normal, newDir) ==
    VAdd(material.emissive, VMul(material.albedo, recursive))
Radiance(material, recursive, normal, newDir) ==
    VAdd(material.emissive,
         VScale(VMul(material.albedo, recursive), Dot(normal, newDir)))

\* ------------------------------------------------------------------------
\* InitScene and the camera of Render
\* ------------------------------------------------------------------------

Material(albedo, emissive, roughness) ==
    [ albedo |-> albedo, emissive |-> emissive, roughness |-> roughness ]

\* A sphere's material is a pointer into the materials vector: the position
\* of the element it points at.
Sphere(center, radius, material) ==
    [ center |-> center, radius |-> radius, material |-> material ]

\* Vector3{x, y, z} of literals given in thousandths.
V(x, y, z) == << (x * One) \div 1000, (y * One) \div 1000, (z * One) \div 1000 >>

GenerateTangentSphere(sphere, center, material) ==
    Sphere(center, FSub(Length(VSub(center, sphere.center)), sphere.radius),
           material)

GenerateOffsetSphere(sphere, center, offset, material) ==
    Sphere(center,
           FSub(FSub(Length(VSub(center, sphere.center)), sphere.radius), offset),
           material)

SceneMaterials ==
    << Material(V(1000, 1000, 1000), V(0, 0, 0), One),
       Material(V(500, 1000, 500), V(10000, 10000, 10000), One),
       Material(V(1000, 500, 500), V(0, 0, 0), One),
       Material(V(500, 500, 1000), V(0, 0, 0), One),
       Material(V(500, 1000, 750), V(0, 0, 0), One),
       Material(V(1000, 1000, 500), V(10000, 5000, 5000), One),
       Material(V(1000, 1000, 1000), V(0, 0, 0), One),
       Material(V(500, 1000, 1000), V(5000, 5000, 10000), One) >>

globalRadius == 100 * One
globalCenter == << 0, -globalRadius, 0 >>

\* The sphere the k-th spheres.emplace_back of InitScene constructs, given
\* the spheres built so far.
SceneSphere(k, sphs) ==
    IF k = 1 THEN Sphere(globalCenter, 100 * One, 1)
    ELSE IF k = 2
         THEN GenerateOffsetSphere(sphs[1], V(0, 250, 0), One \div 8, 2)
    ELSE IF k = 3 THEN GenerateTangentSphere(sphs[1], V(-500, 125, 0), 3)
    ELSE IF k = 4 THEN GenerateTangentSphere(sphs[1], V(500, 250, 500), 4)
    ELSE IF k = 5 THEN GenerateTangentSphere(sphs[1], V(250, 50, -250), 5)
    ELSE IF k = 6
         THEN GenerateOffsetSphere(sphs[1], V(-250, 1000, 1500), One \div 2, 6)
    ELSE IF k = 7 THEN GenerateTangentSphere(sphs[1], V(250, 100, 250), 7)
    ELSE GenerateTangentSphere(sphs[1], V(-650, 50, -250), 8)

NumSceneMaterials == 8
NumSceneSpheres == 8

\* The statements of InitScene in program order: statement n (from 1) is a
\* materials.emplace_back or a spheres.emplace_back.
InitSceneStatementLate(n) ==
    IF n < NumSceneMaterials THEN << "material", n >>
    ELSE IF n = NumSceneMaterials THEN << "sphere", 1 >>
    ELSE IF n = NumSceneMaterials + 1 THEN << "material", NumSceneMaterials >>
    ELSE << "sphere", n - NumSceneMaterials >>
InitSceneStatement(n) ==
    IF n <= NumSceneMaterials THEN << "material", n >>
    ELSE << "sphere", n - NumSceneMaterials >>

camTarget == V(0, 0, 0)
camPos == V(0, 500, -1000)
camUp == V(0, 1000, 0)
camRight == Cross(camUp, Normalize(VSub(camTarget, camPos)))
orthoCamUp == Cross(camRight, Normalize(camPos))

CameraRay(i, j, width, height) ==
    LET dx == FDiv(2 * One, FromInt(width))
        dy == FDiv(2 * One, FromInt(height))
        nearPlanePos ==
            VAdd(VScale(camRight, FAdd(-One, FMul(dx, FromInt(i)))),
                 VScale(orthoCamUp, FSub(One, FMul(dy, FromInt(j)))))
    IN  [ origin |-> camPos,
          direction |-> Normalize(VSub(nearPlanePos, camPos)) ]

\* const int kNumSamples: 1024 in SoftPT.cpp:318 and 4 in the repository's
\* other copy of the file (part_000:307); the model takes the latter.
kNumSamples == 4

\* static_cast<BYTE>(Saturate(c) * 255.0f): the values the conversion can
\* produce.  It truncates a value in range; Saturate passes NaN through (both
\* of its comparisons are false), and the conversion of NaN to an integer
\* type is undefined: the byte is then whatever the build leaves there.
BYTE == 0 .. 255
ToByte(c) ==
    LET scaled == FMul(Saturate(c), 255 * One)
    IN  IF IsNaN(scaled) THEN BYTE ELSE { scaled \div One }

\* ------------------------------------------------------------------------
\* state
\* ------------------------------------------------------------------------

VARIABLES
    pc,         \* where the process is: "msg" (the message loop), "InitScene",
                \* "Render", "TracePath", "aborted", "exited"; "unit" and
                \* "returned" for a function of the core called on its own
    ndebug,     \* whether the build defines NDEBUG (assert compiled out)
    randState,  \* the state of the C runtime's rand()
    materials,  \* std::vector<Material> materials of Render
    spheres,    \* std::vector<Sphere> spheres of Render
    rend,       \* the other locals of Render
    stack,      \* the activation records of TracePath, innermost last
    ret,        \* the value the last finished TracePath call returned
    image,      \* the pixels of the window's device context
    run,        \* which launch of the program this is
    paints,     \* WM_PAINT messages handled by this process
    renders,    \* history: the Render calls completed, over all launches
    pixlog,     \* history: the pixels rendered, over all launches
    unit        \* one call of a function of the core on chosen arguments

vars ==
    << pc, ndebug, randState, materials, spheres, rend, stack, ret, image,
       run, paints, renders, pixlog, unit >>

\* WM_PAINT is handled at most this many times per process, for windows of
\* at most MaxWidth x MaxHeight pixels.
MaxPaints == 2
MaxWidth == 3
MaxHeight == 1

\* No call chain of TracePath is followed deeper than this in the model.
MaxDepth == 8

PixelSet == (0 .. MaxWidth - 1) \X (0 .. MaxHeight - 1)
NoColor == << -1, -1, -1 >>
BlankImage == [ p \in PixelSet |-> NoColor ]

NoRend ==
    [ width |-> 0, height |-> 0, i |-> 0, j |-> 0, s |-> 0,
      colorSum |-> ZeroVec, stmt |-> 0, seed |-> 0, pixelSeed |-> 0,
      set |-> << >> ]

NoRay == [ origin |-> ZeroVec, direction |-> ZeroVec ]
NoSphere == [ center |-> ZeroVec, radius |-> 0, material |-> 1 ]
NoUnit ==
    [ fn |-> "none", done |-> FALSE, ray |-> NoRay, sphere |-> NoSphere,
      normal |-> ZeroVec, rand0 |-> 0, rand1 |-> 0, bounce |-> 0,
      points |-> << >>, vec |-> ZeroVec, tangent |-> ZeroVec,
      bitangent |-> ZeroVec, channel |-> 0, byte |-> 0 ]

\* ------------------------------------------------------------------------
\* TracePath, one step per activation entered and per activation resumed
\* ------------------------------------------------------------------------

Frame(ray, bounce) ==
    [ ray |-> ray, bounce |-> bounce, phase |-> "enter", sphere |-> 0,
      normal |-> ZeroVec, newDir |-> ZeroVec ]

Top == stack[Len(stack)]
Pop == SubSeq(stack, 1, Len(stack) - 1)

Entering == pc = "TracePath" /\ stack # << >> /\ Top.phase = "enter"

\* bounce == kMaxBounces: return zero.
TracePathTerminal ==
    /\ Entering
    /\ TerminalCase(Top.bounce)
    /\ stack' = Pop
    /\ ret' = ZeroVec
    /\ UNCHANGED << pc, ndebug, randState, materials, spheres, rend, image,
                    run, paints, renders, pixlog, unit >>

\* No sphere chosen by the nearest-hit loop: return the background.
TracePathMiss ==
    /\ Entering
    /\ ~TerminalCase(Top.bounce)
    /\ NearestHit(Top.ray, spheres).index = INT_MAX
    /\ stack' = Pop
    /\ ret' = MissColor(Top.ray)
    /\ UNCHANGED << pc, ndebug, randState, materials, spheres, rend, image,
                    run, paints, renders, pixlog, unit >>

\* A sphere was chosen: two calls of rand(), the sampled direction, the
\* assertion, and the recursive call with ++bounce.
TracePathHit ==
    /\ Entering
    /\ ~TerminalCase(Top.bounce)
    /\ Top.bounce < MaxDepth
    /\ \E nearest \in { NearestHit(Top.ray, spheres) } :
          /\ nearest.index # INT_MAX
          /\ \E normal \in { HitNormal(nearest.point, spheres[nearest.index]) },
                draws \in { DrawStates(randState) } :
                  \E newDir \in { RandomVector(normal,
                                               RandFloat(RandValue(draws[1])),
                                               RandFloat(RandValue(draws[2]))) } :
                    /\ randState' = draws[2]
                    /\ IF AssertHolds(newDir, normal) \/ ndebug
                       THEN /\ stack' =
                                 Append([ stack EXCEPT ![Len(stack)] =
                                            [ @ EXCEPT !.phase = "wait",
                                                       !.sphere = nearest.index,
                                                       !.normal = normal,
                                                       !.newDir = newDir ] ],
                                        Frame(ContinuationRay(nearest.point,
                                                              normal, newDir),
                                              Top.bounce + 1))
                            /\ pc' = pc
                       ELSE /\ stack' = stack
                            /\ pc' = "aborted"
    /\ UNCHANGED << ndebug, materials, spheres, rend, ret, image, run, paints,
                    renders, pixlog, unit >>

\* The recursive call has returned: combine and return.
TracePathResume ==
    /\ pc = "TracePath" /\ stack # << >> /\ Top.phase = "wait"
    /\ stack' = Pop
    /\ ret' = Radiance(materials[spheres[Top.sphere].material], ret,
                       Top.normal, Top.newDir)
    /\ UNCHANGED << pc, ndebug, randState, materials, spheres, rend, image,
                    run, paints, renders, pixlog, unit >>

\* ------------------------------------------------------------------------
\* WndProc, Render and InitScene
\* ------------------------------------------------------------------------

\* WM_PAINT: Render(width, height, hdc) starts with two empty vectors.
WmPaint ==
    /\ pc = "msg"
    /\ paints < MaxPaints
    /\ \E w \in 1..MaxWidth, h \in 1..MaxHeight :
          rend' = [ NoRend EXCEPT !.width = w, !.height = h,
                                  !.seed = randState,
                                  !.pixelSeed = randState ]
    /\ materials' = << >>
    /\ spheres' = << >>
    /\ pc' = "InitScene"
    /\ UNCHANGED << ndebug, randState, stack, ret, image, run, paints,
                    renders, pixlog, unit >>

\* The next emplace_back of InitScene.
InitSceneStep ==
    /\ pc = "InitScene"
    /\ LET stmt == InitSceneStatement(rend.stmt + 1)
       IN  IF stmt[1] = "material"
           THEN /\ materials' = Append(materials, SceneMaterials[stmt[2]])
                /\ spheres' = spheres
           ELSE /\ spheres' = Append(spheres, SceneSphere(stmt[2], spheres))
                /\ materials' = materials
    /\ rend' = [ rend EXCEPT !.stmt = @ + 1 ]
    /\ pc' = IF rend.stmt + 1 = NumSceneMaterials + NumSceneSpheres
             THEN "Render" ELSE "InitScene"
    /\ UNCHANGED << ndebug, randState, stack, ret, image, run, paints,
                    renders, pixlog, unit >>

\* One iteration of the sample loop: TracePath(ray, spheres, 0) is called.
RenderSample ==
    /\ pc = "Render"
    /\ rend.s < kNumSamples
    /\ stack' = << Frame(CameraRay(rend.i, rend.j, rend.width, rend.height), 0) >>
    /\ pc' = "TracePath"
    /\ UNCHANGED << ndebug, randState, materials, spheres, rend, ret, image,
                    run, paints, renders, pixlog, unit >>

\* ... and its result is added to colorSum.
RenderSampleReturn ==
    /\ pc = "TracePath" /\ stack = << >> /\ unit.fn = "none"
    /\ rend' = [ rend EXCEPT !.colorSum = VAdd(@, ret), !.s = @ + 1 ]
    /\ pc' = "Render"
    /\ UNCHANGED << ndebug, randState, materials, spheres, stack, ret, image,
                    run, paints, renders, pixlog, unit >>

PixelColorOverPaints(colorSum) ==
    VMul(colorSum, VecSplat(FDiv(One, FromInt(kNumSamples * (paints + 1)))))
PixelColor(colorSum) == VMul(colorSum, VecSplat(FDiv(One, FromInt(kNumSamples))))
ColorRef(color) == ToByte(color[1]) \X ToByte(color[2]) \X ToByte(color[3])

\* The sample loop is over: SetPixel, then the next pixel in the loops'
\* order (j inside i) with a fresh colorSum, or the end of Render, where
\* the two vectors are destroyed and WndProc returns to the message loop.
RenderSetPixel ==
    /\ pc = "Render"
    /\ rend.s = kNumSamples
    /\ \E fragmentColor \in ColorRef(PixelColor(rend.colorSum)) :
       LET color == PixelColor(rend.colorSum)
           set == Append(rend.set, << rend.i, rend.j, fragmentColor >>)
           lastj == rend.j + 1 = rend.height
           last == lastj /\ rend.i + 1 = rend.width
       IN  /\ image' = [ image EXCEPT ![<< rend.i, rend.j >>] = fragmentColor ]
           /\ pixlog' = pixlog \cup
                 { [ run |-> run, paint |-> paints + 1,
                     ray |-> CameraRay(rend.i, rend.j, rend.width, rend.height),
                     seed |-> rend.pixelSeed, colorSum |-> rend.colorSum,
                     color |-> color, fragmentColor |-> fragmentColor,
                     endSeed |-> randState ] }
           /\ IF last
              THEN /\ pc' = "msg"
                   /\ rend' = NoRend
                   /\ materials' = << >>
                   /\ spheres' = << >>
                   /\ paints' = paints + 1
                   /\ renders' = renders \cup
                         { [ run |-> run, paint |-> paints + 1,
                             width |-> rend.width, height |-> rend.height,
                             seed |-> rend.seed, set |-> set,
                             endSeed |-> randState ] }
              ELSE /\ pc' = pc
                   /\ rend' = [ rend EXCEPT !.set = set,
                                            !.s = 0,
                                            !.colorSum = ZeroVec,
                                            !.pixelSeed = randState,
                                            !.j = IF lastj THEN 0 ELSE @ + 1,
                                            !.i = IF lastj THEN @ + 1 ELSE @ ]
                   /\ UNCHANGED << materials, spheres, paints, renders >>
    /\ UNCHANGED << ndebug, randState, stack, ret, run, unit >>

\* WM_DESTROY: PostQuitMessage ends the message loop and the process.
WmDestroy ==
    /\ pc = "msg"
    /\ pc' = "exited"
    /\ UNCHANGED << ndebug, randState, materials, spheres, rend, stack, ret,
                    image, run, paints, renders, pixlog, unit >>

\* wWinMain never calls srand: whichever launch of the program it is, the
\* generator starts in the state srand(1) would set.
StartupSeedFromLaunch(launch) == launch + 1
StartupSeed(launch) == RandDefaultSeed

\* The program is started a second time: a new process, a new window, and
\* the C runtime's generator in its initial state again.
Launch ==
    /\ pc \in { "exited", "aborted" }
    /\ run = 1
    /\ run' = 2
    /\ pc' = "msg"
    /\ randState' = StartupSeed(2)
    /\ paints' = 0
    /\ image' = BlankImage
    /\ stack' = << >>
    /\ ret' = ZeroVec
    /\ rend' = NoRend
    /\ materials' = << >>
    /\ spheres' = << >>
    /\ UNCHANGED << ndebug, renders, pixlog, unit >>

Init ==
    /\ pc = "msg"
    /\ ndebug \in BOOLEAN
    /\ randState = StartupSeed(1)
    /\ materials = << >>
    /\ spheres = << >>
    /\ rend = NoRend
    /\ stack = << >>
    /\ ret = ZeroVec
    /\ image = BlankImage
    /\ run = 1
    /\ paints = 0
    /\ renders = { }
    /\ pixlog = { }
    /\ unit = NoUnit

Next ==
    \/ WmPaint
    \/ InitSceneStep
    \/ RenderSample
    \/ TracePathTerminal
    \/ TracePathMiss
    \/ TracePathHit
    \/ TracePathResume
    \/ RenderSampleReturn
    \/ RenderSetPixel
    \/ WmDestroy
    \/ Launch

Spec == Init /\ [][Next]_vars

\* ------------------------------------------------------------------------
\* TracePath called on its own: any of a few small scenes, a ray, a bounce
\* value and a state of the generator.
\* ------------------------------------------------------------------------

Emitter == Material(ZeroVec, V(10000, 5000, 2000), One)
Paint == Material(V(500, 1000, 500), ZeroVec, One)
Lamp == Material(V(1000, 1000, 500), V(1000, 2000, 3000), One)

\* Six spheres of radius 10 whose surfaces close a room around the origin.
RoomSpheres ==
    << Sphere(V(10500, 0, 0), 10 * One, 1), Sphere(V(-10500, 0, 0), 10 * One, 1),
       Sphere(V(0, 10500, 0), 10 * One, 2), Sphere(V(0, -10500, 0), 10 * One, 1),
       Sphere(V(0, 0, 10500), 10 * One, 1), Sphere(V(0, 0, -10500), 10 * One, 2) >>

TraceScenes ==
    { [ materials |-> << >>, spheres |-> << >> ],
      [ materials |-> << Emitter >>,
        spheres |-> << Sphere(ZeroVec, One, 1) >> ],
      [ materials |-> << Paint, Lamp >>, spheres |-> RoomSpheres ] }

TraceRays ==
    { [ origin |-> V(0, 0, -5000), direction |-> V(0, 0, 1000) ],
      [ origin |-> V(5000, 0, 0), direction |-> V(-1000, 0, 0) ],
      [ origin |-> V(0, 0, -5000), direction |-> V(0, 1000, 0) ],
      [ origin |-> V(0, 0, 0), direction |-> V(0, 1000, 0) ],
      [ origin |-> V(0, 0, 0), direction |-> V(577, 577, 577) ] }

\* The generator states a call of TracePath is started in: 0 .. MaxSeed.
MaxSeed == 15

TraceInit ==
    /\ pc = "TracePath"
    /\ ndebug \in BOOLEAN
    /\ randState \in 0 .. MaxSeed
    /\ \E scene \in TraceScenes :
          /\ materials = scene.materials
          /\ spheres = scene.spheres
    /\ \E ray \in TraceRays, bounce \in 0 .. kMaxBounces :
          /\ unit = [ NoUnit EXCEPT !.fn = "TracePath", !.ray = ray,
                                    !.bounce = bounce, !.rand0 = randState ]
          /\ stack = << Frame(ray, bounce) >>
    /\ rend = NoRend
    /\ ret = ZeroVec
    /\ image = BlankImage
    /\ run = 1
    /\ paints = 0
    /\ renders = { }
    /\ pixlog = { }

\* The outermost call has returned to its caller.
TracePathReturn ==
    /\ pc = "TracePath" /\ stack = << >> /\ unit.fn = "TracePath"
    /\ pc' = "returned"
    /\ unit' = [ unit EXCEPT !.done = TRUE, !.vec = ret ]
    /\ UNCHANGED << ndebug, randState, materials, spheres, rend, stack, ret,
                    image, run, paints, renders, pixlog >>

TraceNext ==
    \/ TracePathTerminal
    \/ TracePathMiss
    \/ TracePathHit
    \/ TracePathResume
    \/ TracePathReturn

SpecTrace == TraceInit /\ [][TraceNext]_vars

\* ------------------------------------------------------------------------
\* The functions of the core, each applied once to arguments drawn from
\* bounded sets.
\* ------------------------------------------------------------------------

\* Ray origins lie on a grid of half units around the sphere.
MaxOffset == 4
\* Normals are the normalised vectors of the integer lattice {-n..n}^3.
MaxLattice == 1

OriginSet ==
    { << x * (One \div 2), 0, z * 5 * One >> : x \in 0..MaxOffset, z \in {-1, 0, 1} }
DirectionSet ==
    { << 0, 0, One >>, << 0, 0, -One >>, << 0, 0, One \div 2 >>,
      << One, 0, 0 >>, << 0, One, One >>, ZeroVec }
UnitSphereSet ==
    { [ center |-> c, radius |-> r, material |-> 1 ] :
        c \in { ZeroVec, << 0, 0, 3 * One >> },
        r \in { One, One \div 2, One \div 2 + 1, -One } }
NormalSet ==
    { Normalize(<< x * One, y * One, z * One >>) :
        x \in -MaxLattice..MaxLattice, y \in -MaxLattice..MaxLattice,
        z \in -MaxLattice..MaxLattice } \ { Normalize(ZeroVec) }
RandFloatSet == { RandFloat(k) : k \in 0..RAND_MAX }
\* Sums of kNumSamples radiance values, one channel: negative, zero, inside
\* and beyond the range that maps to [0,1], infinite, and NaN.
ChannelSumSet ==
    { NaN, PInf, NInf, -One, -1, FLT_MAX } \cup
    { k * (One \div 4) + d : k \in 0 .. 4 * kNumSamples + 2, d \in { 0, 1 } }

UnitIdle ==
    /\ pc = "unit"
    /\ ndebug = FALSE
    /\ randState = RandDefaultSeed
    /\ materials = << >>
    /\ spheres = << >>
    /\ rend = NoRend
    /\ stack = << >>
    /\ ret = ZeroVec
    /\ image = BlankImage
    /\ run = 1
    /\ paints = 0
    /\ renders = { }
    /\ pixlog = { }

UnitArguments ==
    \/ \E o \in OriginSet, d \in DirectionSet, s \in UnitSphereSet :
          unit = [ NoUnit EXCEPT !.fn = "Intersect",
                                 !.ray = [ origin |-> o, direction |-> d ],
                                 !.sphere = s ]
    \/ \E n \in NormalSet :
          unit = [ NoUnit EXCEPT !.fn = "RandomTangentFrame", !.normal = n ]
    \/ \E n \in NormalSet, r0 \in RandFloatSet, r1 \in RandFloatSet :
          unit = [ NoUnit EXCEPT !.fn = "RandomVector", !.normal = n,
                                 !.rand0 = r0, !.rand1 = r1 ]
    \/ \E c \in ChannelSumSet :
          unit = [ NoUnit EXCEPT !.fn = "SetPixel", !.channel = c ]

UnitInit == UnitIdle /\ UnitArguments

UnitUnchanged ==
    UNCHANGED << pc, ndebug, randState, materials, spheres, rend, stack, ret,
                 image, run, paints, renders, pixlog >>

CallIntersect ==
    /\ unit.fn = "Intersect" /\ ~unit.done
    /\ unit' = [ unit EXCEPT !.done = TRUE,
                             !.points = Intersect(unit.ray, unit.sphere) ]
    /\ UnitUnchanged

CallRandomTangentFrame ==
    /\ unit.fn = "RandomTangentFrame" /\ ~unit.done
    /\ LET frame == RandomTangentFrame(unit.normal)
       IN  unit' = [ unit EXCEPT !.done = TRUE,
                                 !.tangent = frame.tangent,
                                 !.bitangent = frame.bitangent ]
    /\ UnitUnchanged

CallRandomVector ==
    /\ unit.fn = "RandomVector" /\ ~unit.done
    /\ unit' = [ unit EXCEPT !.done = TRUE,
                             !.vec = RandomVector(unit.normal, unit.rand0,
                                                  unit.rand1) ]
    /\ UnitUnchanged

\* One channel of a pixel: the sum of the samples is averaged and converted.
CallSetPixel ==
    /\ unit.fn = "SetPixel" /\ ~unit.done
    /\ \E b \in ToByte(PixelColor(VecSplat(unit.channel))[1]) :
          unit' = [ unit EXCEPT !.done = TRUE, !.byte = b ]
    /\ UnitUnchanged

UnitNext ==
    \/ CallIntersect
    \/ CallRandomTangentFrame
    \/ CallRandomVector
    \/ CallSetPixel

SpecUnit == UnitInit /\ [][UnitNext]_vars

\* ------------------------------------------------------------------------
\* Properties of Intersect
\* ------------------------------------------------------------------------

IntersectDone == unit.fn = "Intersect" /\ unit.done
NonZeroDirection == FGt(QuadA(unit.ray), 0)
UnitDisc == Discriminant(unit.ray, unit.sphere)
UnitT0 == RootT0(unit.ray, unit.sphere)
UnitT1 == RootT1(unit.ray, unit.sphere)

\* The roots of the quadratic that are on the ray, and the nearest of them.
RootsOnRay == { t \in { UnitT0, UnitT1 } : FGe(t, 0) }
NearestRoot == CHOOSE t \in RootsOnRay : \A u \in RootsOnRay : t <= u
FarthestRoot == CHOOSE t \in RootsOnRay : \A u \in RootsOnRay : t >= u

AtMostTwoAscending ==
    /\ Len(unit.points) <= 2
    /\ Len(unit.points) = 2 =>
          /\ unit.points[1] = PointAt(unit.ray, NearestRoot)
          /\ unit.points[2] = PointAt(unit.ray, FarthestRoot)

\* C4 as stated: whenever Intersect returns a point for a ray of non-zero
\* direction, the first point is the one at the smallest root t >= 0; two
\* points are in ascending order of t; never more than two points.
C4_FirstIsNearest ==
    (IntersectDone /\ NonZeroDirection) =>
        /\ AtMostTwoAscending
        /\ Len(unit.points) >= 1 =>
              /\ RootsOnRay # {}
              /\ unit.points[1] = PointAt(unit.ray, NearestRoot)

\* C4 amended: the first point is the one at the smallest root t >= 0
\* whenever the discriminant exceeds kEpsilon; for a discriminant in
\* [0, kEpsilon] only the root t0 = (-b + sqrt(disc)) / 2a is looked at, and
\* the single point returned is the one at t0, the larger root.  Two points
\* are in ascending order of t, and there are never more than two.
C4_FirstIsNearestAboveEpsilon ==
    (IntersectDone /\ NonZeroDirection) =>
        /\ AtMostTwoAscending
        /\ (Len(unit.points) >= 1 /\ FGt(UnitDisc, kEpsilon)) =>
              /\ RootsOnRay # {}
              /\ unit.points[1] = PointAt(unit.ray, NearestRoot)
        /\ (Len(unit.points) >= 1 /\ ~FGt(UnitDisc, kEpsilon)) =>
              /\ Len(unit.points) = 1
              /\ unit.points[1] = PointAt(unit.ray, UnitT0)

\* A ray through the sphere with both roots on the ray: two distinct points.
C4_Witness ==
    /\ IntersectDone /\ NonZeroDirection
    /\ Len(unit.points) = 2
    /\ FGe(UnitT1, 0) /\ FLt(UnitT1, UnitT0)
    /\ unit.points[1] # unit.points[2]

IsTangent == FGe(UnitDisc, 0) /\ ~FGt(UnitDisc, kEpsilon)

\* C5 as stated: Intersect returns exactly one point whenever the
\* discriminant is in [0, kEpsilon], for every origin and non-zero direction.
C5_TangentOnePoint ==
    (IntersectDone /\ NonZeroDirection /\ IsTangent) => Len(unit.points) = 1

\* C5 amended: for a discriminant in [0, kEpsilon] Intersect returns exactly
\* one point when the root t0 is non-negative (the point of tangency is on
\* the ray) and no point when t0 is negative (it lies behind the origin).
C5_TangentOnePointOnRay ==
    (IntersectDone /\ NonZeroDirection /\ IsTangent) =>
        Len(unit.points) = (IF FGe(UnitT0, 0) THEN 1 ELSE 0)

\* A tangent ray whose two roots differ and are both on the ray.
C5_Witness ==
    /\ IntersectDone /\ NonZeroDirection /\ IsTangent
    /\ FGt(UnitDisc, 0) /\ FGe(UnitT1, 0)
    /\ Len(unit.points) = 1

\* ------------------------------------------------------------------------
\* Properties of the hemisphere sampler
\* ------------------------------------------------------------------------

\* Lengths and dot products are compared up to this many grid steps.
FrameTol == 4

NearOne(x) == IsFinite(x) /\ Abs(x - One) <= FrameTol
NearZero(x) == IsFinite(x) /\ Abs(x) <= FrameTol

Orthonormal(t, n, b) ==
    /\ NearOne(Length(t)) /\ NearOne(Length(n)) /\ NearOne(Length(b))
    /\ NearZero(Dot(t, n)) /\ NearZero(Dot(t, b)) /\ NearZero(Dot(n, b))

\* C6: the direction RandomVector returns has Dot(result, normal) >=
\* -kEpsilon for all rand0, rand1 in [0,1) and every unit normal (the
\* condition TracePath asserts).
C6_SampleOnHemisphere ==
    (unit.fn = "RandomVector" /\ unit.done) =>
        FGe(Dot(unit.vec, unit.normal), FSub(0, kEpsilon))

\* C7: for any unit normal, {tangent, normal, bitangent} is orthonormal.
C7_FrameOrthonormal ==
    (unit.fn = "RandomTangentFrame" /\ unit.done) =>
        Orthonormal(unit.tangent, unit.normal, unit.bitangent)

\* ------------------------------------------------------------------------
\* Properties of TracePath
\* ------------------------------------------------------------------------

TraceCall == unit.fn = "TracePath"
TraceEnded == pc \in { "returned", "aborted" }
DepthWithinLimit == \A k \in 1 .. Len(stack) : stack[k].bounce <= kMaxBounces

\* The steps a call chain can still take: an activation entered at bounce b
\* makes at most kMaxBounces - b nested calls, each of them entered and
\* resumed once; the last step is the return to the caller.
FrameSteps(frame) ==
    IF frame.phase = "enter" THEN 2 * (kMaxBounces - frame.bounce) + 1 ELSE 1

StepsLeft ==
    LET sum[k \in 0 .. Len(stack)] ==
            IF k = 0 THEN 0 ELSE sum[k - 1] + FrameSteps(stack[k])
    IN  sum[Len(stack)] + (IF pc = "TracePath" THEN 1 ELSE 0)

\* One of the cases of TracePath, or the return to the caller, applies.
CanStep ==
    \/ stack = << >>
    \/ Top.phase = "wait"
    \/ Top.phase = "enter" /\ (TerminalCase(Top.bounce) \/ Top.bounce < MaxDepth)

\* C1: a TracePath call started at bounce 0 ends (it returns, or a failed
\* assertion ends the process): until then a step is always possible and
\* every step lowers the number of steps left, which is never negative;
\* and no call of the chain it starts is made with bounce > kMaxBounces = 6,
\* whatever the scene and the draws.
C1_BoundedRecursion ==
    /\ [](TraceCall /\ unit.bounce = 0 =>
            /\ DepthWithinLimit
            /\ StepsLeft >= 0
            /\ TraceEnded \/ CanStep)
    /\ [][TraceCall /\ unit.bounce = 0 => StepsLeft' < StepsLeft]_vars

\* The call made with bounce = kMaxBounces has just returned to the sixth
\* activation of a chain started at bounce 0.
C1_Witness ==
    /\ TraceCall /\ unit.bounce = 0
    /\ pc = "TracePath"
    /\ Len(stack) = kMaxBounces
    /\ Top.phase = "wait" /\ Top.bounce = kMaxBounces - 1
    /\ \A k \in 1 .. Len(stack) : stack[k].bounce = k - 1

NoSphereIntersects ==
    \A k \in 1 .. Len(spheres) : Len(Intersect(unit.ray, spheres[k])) = 0

\* C2: with USE_SKY_COLOR 0, a TracePath call below the bounce limit whose
\* ray no sphere of the scene reports an intersection with returns exactly
\* (0,0,0); so does every such call on a scene with no sphere at all.
C2_MissIsBlack ==
    (TraceCall /\ unit.done /\ unit.bounce < kMaxBounces /\ NoSphereIntersects)
        => unit.vec = ZeroVec

\* A call below the limit has returned for a ray that misses the one
\* sphere of its scene.
C2_Witness ==
    /\ TraceCall /\ unit.done /\ unit.bounce < kMaxBounces
    /\ spheres # << >> /\ NoSphereIntersects
    /\ unit.ray.direction[2] # 0

SingleBlackSphere ==
    /\ Len(spheres) = 1
    /\ materials[spheres[1].material].albedo = ZeroVec

PrimaryHit ==
    /\ TraceCall /\ unit.bounce = 0
    /\ SingleBlackSphere
    /\ Len(Intersect(unit.ray, spheres[1])) > 0

\* C3: on a scene of one sphere whose material has albedo zero, a TracePath
\* call at bounce 0 whose ray hits the sphere returns, and what it returns
\* is exactly the emissive value of the sphere's material.
C3_EmissiveOnly ==
    PrimaryHit =>
        /\ pc # "aborted"
        /\ unit.done => unit.vec = materials[spheres[1].material].emissive

\* ------------------------------------------------------------------------
\* Properties of Render
\* ------------------------------------------------------------------------

SameWindow(r1, r2) == r1.width = r2.width /\ r1.height = r2.height

\* Two completed Render calls on windows of the same size that started in
\* the same generator state set the same pixels to the same colours.
RenderReproducible ==
    \A r1, r2 \in renders :
        SameWindow(r1, r2) /\ r1.seed = r2.seed =>
            r1.set = r2.set /\ r1.endSeed = r2.endSeed

InRender == pc \in { "InitScene", "Render", "TracePath" }

C9_PixelIndependent ==
    \A p, q \in pixlog :
        p.ray = q.ray =>
            /\ p.colorSum = q.colorSum
            /\ p.color = q.color
            /\ p.fragmentColor = q.fragmentColor

\* C9 (as the program behaves): the colour of a pixel is determined by its
\* camera ray and the state of the process-wide random stream when its
\* first sample starts, which is the state the pixels and Render calls
\* before it left; so is the state it leaves the stream in.
C9_PixelDependsOnStream ==
    \A p, q \in pixlog :
        p.ray = q.ray /\ p.seed = q.seed =>
            /\ p.colorSum = q.colorSum
            /\ p.color = q.color
            /\ p.fragmentColor = q.fragmentColor
            /\ p.endSeed = q.endSeed

\* The same pixel was rendered twice from the same stream state, drawing
\* from the stream, once as part of a first and once of a second Render.
C9_Witness ==
    \E p, q \in pixlog :
        /\ p.ray = q.ray /\ p.seed = q.seed
        /\ p.paint = 1 /\ q.paint = 2
        /\ p.endSeed # p.seed

\* The vectors of a Render call are destroyed when it returns or when the
\* process has ended.
RenderOver ==
    \/ pc = "Render" /\ pc' = "msg"
    \/ pc \in { "exited", "aborted" }

\* C10: from the first spheres.emplace_back on, thus once a sphere points
\* into materials, the materials vector is not changed until the Render
\* call that owns it is over; InitScene inserts no material after a sphere;
\* Render's loops and TracePath change neither vector.
C10_MaterialsFrozen ==
    [][ /\ spheres # << >> /\ ~RenderOver => materials' = materials
        /\ materials' # materials /\ pc = "InitScene" => spheres = << >>
        /\ pc \in { "Render", "TracePath" } /\ ~RenderOver =>
              materials' = materials /\ spheres' = spheres ]_vars

\* Render has set a pixel from a scene of spheres pointing into materials.
C10_Witness ==
    /\ pc \in { "Render", "TracePath" }
    /\ Len(materials) = NumSceneMaterials
    /\ Len(spheres) = NumSceneSpheres
    /\ rend.set # << >>

\* ------------------------------------------------------------------------
\* Properties of the nearest-hit search
\* ------------------------------------------------------------------------

\* The spheres that report at least one intersection with the ray, and the
\* distance of the first point each reports from the ray's origin.
Reporting(ray) ==
    { i \in 1 .. Len(spheres) : Len(Intersect(ray, spheres[i])) > 0 }
FirstDistance(ray, i) ==
    Length(VSub(Intersect(ray, spheres[i])[1], ray.origin))

\* The activation that has just chosen a sphere and made its recursive call.
JustHit ==
    /\ pc = "TracePath" /\ Len(stack) >= 2
    /\ Top.phase = "enter" /\ stack[Len(stack) - 1].phase = "wait"
Chooser == stack[Len(stack) - 1]

\* C11: the sphere the nearest-hit search chooses reports an intersection,
\* no sphere that reports one has its first point nearer to the ray's
\* origin, and of the spheres at exactly that distance it is the first in
\* scan order.
C11_NearestFirstInScan ==
    JustHit =>
        /\ Chooser.sphere \in Reporting(Chooser.ray)
        /\ \A i \in Reporting(Chooser.ray) :
              /\ ~FLt(FirstDistance(Chooser.ray, i),
                      FirstDistance(Chooser.ray, Chooser.sphere))
              /\ FirstDistance(Chooser.ray, i) =
                    FirstDistance(Chooser.ray, Chooser.sphere)
                        => Chooser.sphere <= i

\* A sphere was chosen among several at exactly the minimum distance, with
\* another reporting sphere farther away.
C11_Witness ==
    /\ JustHit
    /\ \E i, j \in Reporting(Chooser.ray) :
          /\ i # Chooser.sphere
          /\ FirstDistance(Chooser.ray, i) =
                FirstDistance(Chooser.ray, Chooser.sphere)
          /\ FGt(FirstDistance(Chooser.ray, j),
                 FirstDistance(Chooser.ray, Chooser.sphere))

\* ------------------------------------------------------------------------
\* The recurrence of TracePath, unwound
\* ------------------------------------------------------------------------

\* The forward pass of the iterative form: the hits of the path that starts
\* with the given ray, generator state and bounce, in order, up to the
\* first miss or to the bounce limit.
RECURSIVE PathHits(_, _, _)
PathHits(ray, state, bounce) ==
    IF bounce = kMaxBounces THEN << >>
    ELSE LET nearest == NearestHit(ray, spheres)
         IN  IF nearest.index = INT_MAX THEN << >>
             ELSE LET normal == HitNormal(nearest.point, spheres[nearest.index])
                      state0 == RandAdvance(state)
                      state1 == RandAdvance(state0)
                      newDir == RandomVector(normal,
                                             RandFloat(RandValue(state0)),
                                             RandFloat(RandValue(state1)))
                  IN  << [ material |-> materials[spheres[nearest.index].material],
                           cos |-> Dot(normal, newDir) ] >>
                      \o PathHits(ContinuationRay(nearest.point, normal, newDir),
                                  state1, bounce + 1)

\* The backward pass: L = 0 after the last hit, and
\* L_i = emissive_i + albedo_i * L_{i+1} * cos_i from the last hit to the first.
Accumulate(hits) ==
    LET n == Len(hits)
        L[k \in 1 .. n + 1] ==
            IF k = n + 1 THEN ZeroVec
            ELSE VAdd(hits[k].material.emissive,
                      VScale(VMul(hits[k].material.albedo, L[k + 1]),
                             hits[k].cos))
    IN  L[1]

\* C12: what the recursive TracePath returns is what the bottom-up
\* accumulation of L_i = emissive_i + albedo_i * L_{i+1} * (normal_i . newDir_i)
\* gives over the same hits and the same draws, with L = 0 at the first miss
\* or at bounce kMaxBounces.
C12_RecursionIsRecurrence ==
    TraceCall /\ unit.done =>
        unit.vec = Accumulate(PathHits(unit.ray, unit.rand0, unit.bounce))

\* A call at bounce 0 has returned a finite, non-zero radiance gathered
\* over at least three hits.
C12_Witness ==
    /\ TraceCall /\ unit.done /\ unit.bounce = 0
    /\ Len(PathHits(unit.ray, unit.rand0, unit.bounce)) >= 3
    /\ VecFinite(unit.vec) /\ unit.vec # ZeroVec

\* ------------------------------------------------------------------------
\* Properties of the pixels Render sets
\* ------------------------------------------------------------------------

SetPixelDone == unit.fn = "SetPixel" /\ unit.done
ChannelAverage == PixelColor(VecSplat(unit.channel))[1]

\* C13 (the channel written): whatever the sum of the kNumSamples TracePath
\* results is, the channel Render writes is the average of the samples
\* saturated to [0,1] and scaled by 255, an integer in [0,255].
C13_ChannelSaturated ==
    SetPixelDone =>
        LET s == Saturate(ChannelAverage)
        IN  /\ FGe(s, 0) /\ FGe(One, s)
            /\ unit.byte = FMul(s, 255 * One) \div One
            /\ unit.byte \in BYTE

\* The pixels a Render call has set so far are the first ones of its loops'
\* order (i outside, j inside), each set once; a completed call has set
\* every pixel of the window.
PixelsInLoopOrder(set, height) ==
    \A k \in 1 .. Len(set) :
        /\ set[k][1] = (k - 1) \div height
        /\ set[k][2] = (k - 1) % height

RenderSetsEachPixelOnce ==
    /\ pc \in { "Render", "TracePath" } =>
          /\ PixelsInLoopOrder(rend.set, rend.height)
          /\ Len(rend.set) = rend.i * rend.height + rend.j
          /\ Len(rend.set) < rend.width * rend.height
    /\ \A r \in renders :
          /\ PixelsInLoopOrder(r.set, r.height)
          /\ Len(r.set) = r.width * r.height
    /\ \A p \in pixlog :
          /\ p.color = PixelColor(p.colorSum)
          /\ p.fragmentColor \in BYTE \X BYTE \X BYTE
          /\ p.fragmentColor \in ColorRef(p.color)

\* ------------------------------------------------------------------------
\* The values TracePath takes from the random stream
\* ------------------------------------------------------------------------

\* The state of the generator n calls of rand() after the given state.
RECURSIVE StreamState(_, _)
StreamState(state, n) ==
    IF n = 0 THEN state ELSE RandAdvance(StreamState(state, n - 1))

\* The n-th value (from 1) of the stream that starts in the given state.
StreamFloat(state, n) == RandFloat(RandValue(StreamState(state, n)))

\* The step is a hit: a recursive call is made or the assertion fails.
HitStep ==
    \/ Len(stack') = Len(stack) + 1
    \/ pc = "TracePath" /\ pc' = "aborted"

\* C14: a path started at bounce 0 has taken two values per hit when the
\* call for bounce k is entered, 2k of them and at most 12; the hit at
\* bounce k takes the next two, the first for rand0 and the second for
\* rand1, before the call at bounce k+1 is entered; a miss, the terminal
\* bounce and the returns take none.
C14_TwoDrawsPerHit ==
    /\ [](TraceCall /\ unit.bounce = 0 /\ pc = "TracePath" =>
            /\ Entering =>
                  randState = StreamState(unit.rand0, 2 * Top.bounce)
            /\ \E hits \in 0 .. kMaxBounces :
                  randState = StreamState(unit.rand0, 2 * hits))
    /\ [][TraceCall /\ unit.bounce = 0 =>
            IF HitStep
            THEN /\ randState' = StreamState(randState, 2)
                 /\ Len(stack') = Len(stack) + 1 =>
                       /\ stack'[Len(stack)].newDir =
                             RandomVector(stack'[Len(stack)].normal,
                                          StreamFloat(unit.rand0, 2 * Top.bounce + 1),
                                          StreamFloat(unit.rand0, 2 * Top.bounce + 2))
                       /\ stack'[Len(stack')].phase = "enter"
            ELSE randState' = randState]_vars

\* The call at the terminal bounce of a path started at bounce 0 is entered
\* after six hits have taken twelve values.
C14_Witness ==
    /\ TraceCall /\ unit.bounce = 0
    /\ Entering /\ Top.bounce = kMaxBounces
    /\ randState = StreamState(unit.rand0, 2 * kMaxBounces)
    /\ randState # unit.rand0

====
